---------------------------- MODULE Spec2Model ----------------------------
(***************************************************************************)
(* The open_disaster backend: an Orchestrator that runs a list of agents   *)
(* one after the other over a shared context (backend/orchestrator.py),    *)
(* the two default agents (backend/agents) and the API handler that calls  *)
(* the orchestrator (backend/main.py).                                     *)
(*                                                                         *)
(* Python strings are modelled as sequences of one-character strings, so   *)
(* that the regular expressions and str.lower / str.strip act on           *)
(* characters.  An optional value (None or v) is the set {} or {v}.        *)
(***************************************************************************)
EXTENDS Integers, Sequences, FiniteSets, TLC

(***************************************************************************)
(* Bounds of the model.                                                    *)
(***************************************************************************)
MaxRuns == 2       \* Orchestrator.run invocations on the one orchestrator
MaxAgents == 2     \* length of the longest agent list

Runs == 1..MaxRuns

(***************************************************************************)
(* The prompts of the requests.                                            *)
(***************************************************************************)
Prompts == {
    <<>>,
    <<"F", "L", "O", "O", "D", " ", "a", "t", " ", "R", "o", "m", "e", ",",
      " ", "a", "f", "t", "e", "r", " ", "r", "a", "i", "n">> }

\* the prompt a test double writes over the key "prompt"
OtherPrompt == <<"t", "s", "u", "n", "a", "m", "i">>

\* the strings the key "prompt" of a context can hold
PromptValues == Prompts \cup {OtherPrompt}

(***************************************************************************)
(* Text.                                                                   *)
(***************************************************************************)
LowerCase ==
    "A" :> "a" @@ "B" :> "b" @@ "C" :> "c" @@ "D" :> "d" @@ "E" :> "e" @@
    "F" :> "f" @@ "G" :> "g" @@ "H" :> "h" @@ "I" :> "i" @@ "J" :> "j" @@
    "K" :> "k" @@ "L" :> "l" @@ "M" :> "m" @@ "N" :> "n" @@ "O" :> "o" @@
    "P" :> "p" @@ "Q" :> "q" @@ "R" :> "r" @@ "S" :> "s" @@ "T" :> "t" @@
    "U" :> "u" @@ "V" :> "v" @@ "W" :> "w" @@ "X" :> "x" @@ "Y" :> "y" @@
    "Z" :> "z"

\* str.lower on one character
LowerChar(c) == IF c \in DOMAIN LowerCase THEN LowerCase[c] ELSE c

\* str.lower
Lower(s) == [i \in 1..Len(s) |-> LowerChar(s[i])]

\* the regex class \s
IsSpace(c) == c \in {" ", "\t", "\n", "\r"}

\* the regex atom . (no DOTALL): any character but a newline
IsDot(c) == c # "\n"

\* a literal word of a re.IGNORECASE pattern matches s at position p
MatchAt(s, p, w) ==
    /\ p >= 1
    /\ p + Len(w) - 1 <= Len(s)
    /\ \A i \in 1..Len(w) : LowerChar(s[p + i - 1]) = LowerChar(w[i])

SetMin(S) == CHOOSE x \in S : \A y \in S : x <= y
SetMax(S) == CHOOSE x \in S : \A y \in S : x >= y

\* the number of whitespace characters of s in a row from position q on
SpaceRun(s, q) ==
    SetMax({n \in 0..(Len(s) + 1 - q) :
                \A j \in q..(q + n - 1) : IsSpace(s[j])})

\* str.strip()
Strip(s) ==
    LET keep == {i \in 1..Len(s) : ~IsSpace(s[i])}
    IN  IF keep = {} THEN <<>> ELSE SubSeq(s, SetMin(keep), SetMax(keep))

\* str.rstrip(",")
RStripComma(s) ==
    LET keep == {i \in 1..Len(s) : s[i] # ","}
    IN  IF keep = {} THEN <<>> ELSE SubSeq(s, 1, SetMax(keep))

\* dict.get(key, default)
Get(d, key, default) == IF key \in DOMAIN d THEN d[key] ELSE default

\* dict.update: the keys of result overwrite, every other key stays
UpdateWithLocation(ctx, result) ==
    [k \in DOMAIN ctx \cup DOMAIN result \cup {"location"} |->
        IF k \in DOMAIN result THEN result[k]
        ELSE IF k \in DOMAIN ctx THEN ctx[k] ELSE [null |-> TRUE]]
UpdateIgnore(ctx, result) == ctx
UpdateReplace(ctx, result) == result
UpdateKeepFirst(ctx, result) ==
    [k \in DOMAIN ctx \cup DOMAIN result |->
        IF k \in DOMAIN ctx THEN ctx[k] ELSE result[k]]
Update(ctx, result) ==
    [k \in DOMAIN ctx \cup DOMAIN result |->
        IF k \in DOMAIN result THEN result[k] ELSE ctx[k]]

(***************************************************************************)
(* DisasterTypeAgent (backend/agents/disaster_type_agent.py).              *)
(***************************************************************************)
DISASTER_TYPES == <<
    <<"a", "v", "a", "l", "a", "n", "c", "h", "e">>,
    <<"e", "a", "r", "t", "h", "q", "u", "a", "k", "e">>,
    <<"f", "l", "o", "o", "d">>,
    <<"w", "i", "l", "d", "f", "i", "r", "e">>,
    <<"h", "u", "r", "r", "i", "c", "a", "n", "e">>,
    <<"t", "o", "r", "n", "a", "d", "o">>,
    <<"t", "s", "u", "n", "a", "m", "i">>,
    <<"l", "a", "n", "d", "s", "l", "i", "d", "e">>,
    <<"v", "o", "l", "c", "a", "n", "i", "c", " ", "e", "r", "u", "p", "t", "i", "o", "n">> >>

Unknown == <<"u", "n", "k", "n", "o", "w", "n">>

\* _PATTERN.search(s).group(0): the leftmost match, at one position the
\* first alternative that matches; {} when there is no match
PatternSearch(s) ==
    LET hit(p) == {i \in 1..Len(DISASTER_TYPES) : MatchAt(s, p, DISASTER_TYPES[i])}
        starts == {p \in 1..Len(s) : hit(p) # {}}
    IN  IF starts = {} THEN {}
        ELSE LET p == SetMin(starts)
                 w == DISASTER_TYPES[SetMin(hit(p))]
             IN  {SubSeq(s, p, p + Len(w) - 1)}

\* PatternSearch tabulated over the prompts of the model: TLC evaluates the
\* table once
PatternSearchTable == {<<s, PatternSearch(s)>> : s \in PromptValues}

PatternSearchOf(s) ==
    IF s \in PromptValues
    THEN (CHOOSE t \in PatternSearchTable : t[1] = s)[2]
    ELSE PatternSearch(s)

\* DisasterTypeAgent.run
DisasterTypeRunAfterLocation(context) ==
    LET prompt == Get(context, "prompt", <<>>)
        match == PatternSearchOf(prompt)
    IN  "disaster_type" :>
            IF match # {} /\ "location" \notin DOMAIN context
            THEN Lower(CHOOSE m \in match : TRUE)
            ELSE Unknown
DisasterTypeRunEchoPrompt(context) ==
    LET prompt == Get(context, "prompt", <<>>)
        match == PatternSearchOf(prompt)
    IN  ("prompt" :> Lower(prompt)) @@
        ("disaster_type" :>
            IF match # {} THEN Lower(CHOOSE m \in match : TRUE) ELSE Unknown)
DisasterTypeRun(context) ==
    LET prompt == Get(context, "prompt", <<>>)
        match == PatternSearchOf(prompt)
    IN  "disaster_type" :>
            IF match # {} THEN Lower(CHOOSE m \in match : TRUE) ELSE Unknown

(***************************************************************************)
(* GeocodingAgent (backend/agents/geocoding_agent.py).                     *)
(***************************************************************************)
\* the words of the first group of _LOCATION_PATTERNS[0], in pattern order
LocationTriggers == <<
    <<"h", "i", "t", "t", "i", "n", "g">>,
    <<"a", "t">>,
    <<"i", "n">>,
    <<"n", "e", "a", "r">>,
    <<"a", "r", "o", "u", "n", "d">>,
    <<"o", "v", "e", "r">> >>

\* the words that end the location phrase
LocationStops == {
    <<"a", "f", "t", "e", "r">>,
    <<"d", "u", "r", "i", "n", "g">>,
    <<"w", "i", "t", "h">>,
    <<"f", "r", "o", "m">> }

\* (?:\s+(?:after|during|with|from)|[.!?]|$) matches s at position e
LocationEndAt(s, e) ==
    \/ \E n \in 1..SpaceRun(s, e) : \E w \in LocationStops : MatchAt(s, e + n, w)
    \/ e <= Len(s) /\ s[e] \in {".", "!", "?"}
    \/ e = Len(s) + 1
    \/ e = Len(s) /\ s[e] = "\n"

\* the lengths the lazy group (.+?) can take when it starts at position g
LocationGroupLens(s, g) ==
    {n \in 1..(Len(s) + 1 - g) :
        /\ \A j \in g..(g + n - 1) : IsDot(s[j])
        /\ LocationEndAt(s, g + n)}

\* _LOCATION_PATTERNS[0].search(s).group(1).  The regex engine takes the
\* leftmost start, there the first trigger word, the longest \s+ and the
\* shortest group for which the rest of the pattern matches.
LocationSearch(s) ==
    LET spaces(p, t) ==
            {n \in 1..SpaceRun(s, p + Len(LocationTriggers[t])) :
                LocationGroupLens(s, p + Len(LocationTriggers[t]) + n) # {}}
        words(p) ==
            {t \in 1..Len(LocationTriggers) :
                MatchAt(s, p, LocationTriggers[t]) /\ spaces(p, t) # {}}
        starts == {p \in 1..Len(s) : words(p) # {}}
    IN  IF starts = {} THEN {}
        ELSE LET p == SetMin(starts)
                 t == SetMin(words(p))
                 g == p + Len(LocationTriggers[t]) + SetMax(spaces(p, t))
             IN  {SubSeq(s, g, g + SetMin(LocationGroupLens(s, g)) - 1)}

\* LocationSearch tabulated over the prompts of the model
LocationSearchTable == {<<s, LocationSearch(s)>> : s \in PromptValues}

LocationSearchOf(s) ==
    IF s \in PromptValues
    THEN (CHOOSE t \in LocationSearchTable : t[1] = s)[2]
    ELSE LocationSearch(s)

\* _extract_location_query
ExtractLocationQuery(prompt) ==
    {RStripComma(Strip(m)) : m \in LocationSearchOf(prompt)}

\* JSON null as the value of the key "location"
Null == [null |-> TRUE]

\* the query GeocodingAgent.run sends to the geocoder, {} when it returns
\* before the lookup (if not query)
GeocodingQueryWholePrompt(context) ==
    LET query == ExtractLocationQuery(Get(context, "prompt", <<>>))
    IN  IF query = {} \/ query = {<<>>}
        THEN {Get(context, "prompt", <<>>)}
        ELSE query
GeocodingQuery(context) ==
    LET query == ExtractLocationQuery(Get(context, "prompt", <<>>))
    IN  IF query = {} \/ query = {<<>>} THEN {} ELSE query

\* GeocodingAgent.run from the parsed response body on
GeocodingResultLatFirst(query, data) ==
    LET features == Get(data, "features", <<>>)
    IN  IF features = <<>> THEN "location" :> Null
        ELSE LET feature == features[1]
                 coords == feature.geometry.coordinates
                 props == feature.properties
                 name == IF Get(props, "full_address", <<>>) # <<>>
                         THEN props["full_address"]
                         ELSE Get(props, "name", query)
             IN  "location" :> [name |-> name, lat |-> coords[1], lng |-> coords[2]]
GeocodingResult(query, data) ==
    LET features == Get(data, "features", <<>>)
    IN  IF features = <<>> THEN "location" :> Null
        ELSE LET feature == features[1]
                 coords == feature.geometry.coordinates
                 props == feature.properties
                 name == IF Get(props, "full_address", <<>>) # <<>>
                         THEN props["full_address"]
                         ELSE Get(props, "name", query)
             IN  "location" :> [name |-> name, lat |-> coords[2], lng |-> coords[1]]


(***************************************************************************)
(* The geocoder (the Mapbox forward-geocoding endpoint): what the request  *)
(* of GeocodingAgent.run can end with.                                     *)
(***************************************************************************)
RomeIT == <<"R", "o", "m", "e", ",", " ", "I", "T">>

GeoResponses == {
    [status |-> "error", error |-> "HTTPStatusError"],
    [status |-> "ok", data |-> "features" :> <<>>],
    [status |-> "ok",
     data |-> "features" :>
        << [geometry |-> [coordinates |-> <<12, 41>>],
            properties |-> "full_address" :> RomeIT] >>] }

(***************************************************************************)
(* Agents.  An agent list holds agent names: the two agents of the         *)
(* repository and test doubles of BaseAgent, each with one fixed           *)
(* behaviour.                                                              *)
(***************************************************************************)
\* no dict: the context of a run that has not started
EmptyDict == <<>>

\* BaseAgent.run of a test double: the mapping it returns, or the error it
\* raises
DoubleReturns ==
    [set_x      |-> "disaster_type" :> <<"x">>,
     set_y      |-> "disaster_type" :> <<"y">>,
     set_prompt |-> "prompt" :> OtherPrompt]

DoubleRaises == [failing |-> "ExternalDependencyError"]

AgentNames ==
    {"disaster_type", "geocoding"} \cup DOMAIN DoubleReturns \cup DOMAIN DoubleRaises

DefaultAgents == <<"disaster_type", "geocoding">>

AgentLists == UNION {[1..n -> AgentNames] : n \in 0..MaxAgents}

\* the mappings agent.run(context) can return; query is the geocoder query
\* of a GeocodingAgent in flight
AgentResults(agent, context, query) ==
    CASE agent = "disaster_type" -> {DisasterTypeRun(context)}
      [] agent = "geocoding" ->
            IF query = {} THEN {"location" :> Null}
            ELSE {GeocodingResult(CHOOSE q \in query : TRUE, resp.data) :
                    resp \in {x \in GeoResponses : x.status = "ok"}}
      [] agent \in DOMAIN DoubleReturns -> {DoubleReturns[agent]}
      [] OTHER -> {}

\* the errors agent.run(context) can raise
AgentErrors(agent, context, query) ==
    CASE agent = "geocoding" ->
            IF query = {} THEN {}
            ELSE {resp.error : resp \in {x \in GeoResponses : x.status = "error"}}
      [] agent \in DOMAIN DoubleRaises -> {DoubleRaises[agent]}
      [] OTHER -> {}

(***************************************************************************)
(* State.  The event loop runs a coroutine from one suspension to the      *)
(* next, so a step of a run goes from the completion of an awaited         *)
(* agent.run to the next await of Orchestrator.run, or to its end.  Every  *)
(* agent.run is a point where other runs can take steps, also the ones     *)
(* that return without suspending.                                         *)
(***************************************************************************)
VARIABLES
    agents,     \* Orchestrator._agents
    pc,         \* per run: "idle", "running" (awaiting an agent.run), "done",
                \* "aborted"
    it,         \* per run: the position of the list iterator of the for loop
    prompt,     \* per run: the argument of Orchestrator.run
    context,    \* per run: the local variable context
    query,      \* per run: the geocoder query in flight ({}: none)
    returned,   \* per run: what Orchestrator.run returned ({}: nothing)
    error,      \* per run: what Orchestrator.run raised ("none": nothing)
    response,   \* per run: the SimulateResponse of simulate ({}: none)
    calls,      \* history, per run: the agent.run calls made
    seen,       \* history, per run: the context each call was given
    results,    \* history, per run: the mappings the calls returned
    raised,     \* history, per run: the error an agent.run raised
    lookups,    \* history, per run: the queries sent to the geocoder
    inflight,   \* history, per run: the calls started and not yet finished
    started     \* history, per run: the agent list as the run found it

vars == <<agents, pc, it, prompt, context, query, returned, error, response,
          calls, seen, results, raised, lookups, inflight, started>>

\* context: dict = {"prompt": prompt}
NewContextWithDefaults(p) == ("prompt" :> p) @@ ("disaster_type" :> Unknown)
NewContext(p) == "prompt" :> p

\* context.update(result) on the context of run r; the context is a local
\* variable of the invocation
MergeShared(ctxs, r, result) == [q \in Runs |-> Update(ctxs[r], result)]
Merge(ctxs, r, result) == [ctxs EXCEPT ![r] = Update(@, result)]

\* the list iterator after next()
IterStay(i) == i
IterSkip(i) == i + 2
IterAdvance(i) == i + 1

\* simulate from the result of orchestrator.run on
SimulateResponseNoDefault(result) ==
    [location |->
        IF Get(result, "location", Null) # Null
        THEN {[name |-> result["location"].name,
               lat |-> result["location"].lat,
               lng |-> result["location"].lng]}
        ELSE {},
     disaster_type |-> Get(result, "disaster_type", <<>>)]
SimulateResponse(result) ==
    [location |->
        IF Get(result, "location", Null) # Null
        THEN {[name |-> result["location"].name,
               lat |-> result["location"].lat,
               lng |-> result["location"].lng]}
        ELSE {},
     disaster_type |-> Get(result, "disaster_type", Unknown)]

\* the mapping agent.run(ctx) returns when the geocoder answers a
\* GeocodingAgent with resp
AgentResultWith(agent, ctx, resp) ==
    IF agent = "geocoding"
    THEN IF GeocodingQuery(ctx) = {} THEN "location" :> Null
         ELSE GeocodingResult(CHOOSE q \in GeocodingQuery(ctx) : TRUE,
                              resp.data)
    ELSE CHOOSE result \in AgentResults(agent, ctx, {}) : TRUE

\* the for loop of Orchestrator.run over list, from the context ctx, when
\* the geocoder answers resp: the context it ends with
RECURSIVE RunLoop(_, _, _)
RunLoop(list, ctx, resp) ==
    IF list = <<>> THEN ctx
    ELSE RunLoop(Tail(list), Update(ctx, AgentResultWith(Head(list), ctx, resp)),
                 resp)

\* Orchestrator(list).run(p) when the geocoder answers resp
OrchestratorRun(list, p, resp) == RunLoop(list, NewContext(p), resp)

\* the last agent.run call of run r
Current(r) == calls[r][Len(calls[r])]

Init ==
    /\ agents \in AgentLists
    /\ pc = [r \in Runs |-> "idle"]
    /\ it = [r \in Runs |-> 0]
    /\ prompt = [r \in Runs |-> <<>>]
    /\ context = [r \in Runs |-> EmptyDict]
    /\ query = [r \in Runs |-> {}]
    /\ returned = [r \in Runs |-> {}]
    /\ error = [r \in Runs |-> "none"]
    /\ response = [r \in Runs |-> {}]
    /\ calls = [r \in Runs |-> <<>>]
    /\ seen = [r \in Runs |-> <<>>]
    /\ results = [r \in Runs |-> <<>>]
    /\ raised = [r \in Runs |-> "none"]
    /\ lookups = [r \in Runs |-> <<>>]
    /\ inflight = [r \in Runs |-> {}]
    /\ started = [r \in Runs |-> <<>>]

\* The for loop of run r from its head, with the iterator at position i, the
\* context as this step leaves it (context') and the calls fl in flight.
\* Either the next agent is called with the context and awaited, a
\* GeocodingAgent running up to its request; or the iterator is exhausted,
\* the context is returned and simulate builds its response from it.
Proceed(r, i, fl) ==
    IF i < Len(agents)
    THEN LET agent == agents[i + 1]
             q == IF agent = "geocoding" THEN GeocodingQuery(context'[r]) ELSE {}
         IN  /\ calls' = [calls EXCEPT ![r] =
                            Append(@, [index |-> i + 1, agent |-> agent])]
             /\ seen' = [seen EXCEPT ![r] = Append(@, context'[r])]
             /\ inflight' = [inflight EXCEPT ![r] = fl \cup {i + 1}]
             /\ query' = [query EXCEPT ![r] = q]
             /\ lookups' = [lookups EXCEPT ![r] =
                            IF q = {} THEN @ ELSE Append(@, CHOOSE x \in q : TRUE)]
             /\ it' = [it EXCEPT ![r] = IterAdvance(i)]
             /\ pc' = [pc EXCEPT ![r] = "running"]
             /\ UNCHANGED <<returned, response>>
    ELSE /\ pc' = [pc EXCEPT ![r] = "done"]
         /\ returned' = [returned EXCEPT ![r] = {context'[r]}]
         /\ response' = [response EXCEPT ![r] = {SimulateResponse(context'[r])}]
         /\ inflight' = [inflight EXCEPT ![r] = fl]
         /\ query' = [query EXCEPT ![r] = {}]
         /\ UNCHANGED <<calls, seen, lookups, it>>

\* simulate receives a request and calls orchestrator.run(req.prompt), which
\* creates its context and enters the for loop
Start(r, p) ==
    /\ pc[r] = "idle"
    /\ prompt' = [prompt EXCEPT ![r] = p]
    /\ context' = [context EXCEPT ![r] = NewContext(p)]
    /\ started' = [started EXCEPT ![r] = agents]
    /\ Proceed(r, 0, {})
    /\ UNCHANGED <<agents, error, results, raised>>

\* the awaited agent.run returns a mapping: context.update(result), and the
\* loop goes on
AgentReturnsAfterWrite(r) ==
    /\ pc[r] = "running"
    /\ \E result \in AgentResults(Current(r).agent, context[r], query[r]) :
        /\ results' = [results EXCEPT ![r] = Append(@, result)]
        /\ context' = Merge([context EXCEPT
                               ![r] = Update(@, "agent" :> <<Current(r).agent>>)],
                            r, result)
    /\ Proceed(r, it[r], inflight[r] \ {Current(r).index})
    /\ UNCHANGED <<agents, prompt, error, raised, started>>
AgentReturnsUnawaited(r) ==
    /\ pc[r] = "running"
    /\ it[r] < Len(agents)
    /\ context' = context
    /\ Proceed(r, it[r], inflight[r])
    /\ UNCHANGED <<agents, prompt, error, results, raised, started>>
AgentReturns(r) ==
    /\ pc[r] = "running"
    /\ \E result \in AgentResults(Current(r).agent, context[r], query[r]) :
        /\ results' = [results EXCEPT ![r] = Append(@, result)]
        /\ context' = Merge(context, r, result)
    /\ Proceed(r, it[r], inflight[r] \ {Current(r).index})
    /\ UNCHANGED <<agents, prompt, error, raised, started>>

\* the awaited agent.run raises; Orchestrator.run has no handler, the error
\* leaves it and simulate
AgentRaisesSwallowed(r) ==
    /\ pc[r] = "running"
    /\ \E e \in AgentErrors(Current(r).agent, context[r], query[r]) :
        raised' = [raised EXCEPT ![r] = e]
    /\ context' = context
    /\ Proceed(r, it[r], inflight[r] \ {Current(r).index})
    /\ UNCHANGED <<agents, prompt, error, results, started>>
AgentRaisesPartial(r) ==
    /\ pc[r] = "running"
    /\ \E e \in AgentErrors(Current(r).agent, context[r], query[r]) :
        /\ raised' = [raised EXCEPT ![r] = e]
        /\ error' = [error EXCEPT ![r] = e]
    /\ pc' = [pc EXCEPT ![r] = "aborted"]
    /\ returned' = [returned EXCEPT ![r] = {context[r]}]
    /\ query' = [query EXCEPT ![r] = {}]
    /\ inflight' = [inflight EXCEPT ![r] = @ \ {Current(r).index}]
    /\ UNCHANGED <<agents, it, prompt, context, response, calls, seen,
                   results, lookups, started>>
AgentRaises(r) ==
    /\ pc[r] = "running"
    /\ \E e \in AgentErrors(Current(r).agent, context[r], query[r]) :
        /\ raised' = [raised EXCEPT ![r] = e]
        /\ error' = [error EXCEPT ![r] = e]
    /\ pc' = [pc EXCEPT ![r] = "aborted"]
    /\ query' = [query EXCEPT ![r] = {}]
    /\ inflight' = [inflight EXCEPT ![r] = @ \ {Current(r).index}]
    /\ UNCHANGED <<agents, it, prompt, context, returned, response, calls,
                   seen, results, lookups, started>>

Next ==
    \/ \E r \in Runs, p \in Prompts : Start(r, p)
    \/ \E r \in Runs : AgentReturns(r)
    \/ \E r \in Runs : AgentRaises(r)

Spec == Init /\ [][Next]_vars

\* Orchestrator.run under the hypothesis that every awaited agent.run
\* eventually returns or raises: the event loop then resumes the run, so the
\* step that follows the completion of the call in flight is taken.
FairSpec ==
    /\ Init
    /\ [][Next]_vars
    /\ \A r \in Runs : WF_vars(AgentReturns(r) \/ AgentRaises(r))

\* The caller of Orchestrator(agents) keeps the list it passed: __init__
\* stores the same list object (self._agents = agents), and the for loop of
\* a run reads it through a list iterator at every step.  Between two steps
\* of the runs the caller appends an agent to its list.
CallerAppends(a) ==
    /\ Len(agents) < MaxAgents
    /\ agents' = Append(agents, a)
    /\ UNCHANGED <<pc, it, prompt, context, query, returned, error, response,
                   calls, seen, results, raised, lookups, inflight, started>>

NextShared ==
    \/ \E r \in Runs, p \in Prompts : Start(r, p)
    \/ \E r \in Runs : AgentReturns(r)
    \/ \E r \in Runs : AgentRaises(r)
    \/ \E a \in AgentNames : CallerAppends(a)

SpecShared == Init /\ [][NextShared]_vars

(***************************************************************************)
(* Properties.                                                             *)
(***************************************************************************)
FloodPrompt ==
    <<"F", "L", "O", "O", "D", " ", "a", "t", " ", "R", "o", "m", "e", ",",
      " ", "a", "f", "t", "e", "r", " ", "r", "a", "i", "n">>

\* the calls among the first n of a run that returned the key k
Writers(rs, n, k) == {j \in 1..n : k \in DOMAIN rs[j]}

\* the keys the calls of rs returned
KeysOf(rs) == UNION {DOMAIN rs[j] : j \in 1..Len(rs)}

\* the context made of the prompt p and the mappings rs alone, the last
\* mapping with a key giving its value
Expected(p, rs) ==
    [k \in {"prompt"} \cup KeysOf(rs) |->
        IF Writers(rs, Len(rs), k) = {} THEN p
        ELSE rs[SetMax(Writers(rs, Len(rs), k))][k]]

\* C1: the context given to the i-th agent.run call of a run holds "prompt"
\* and every key returned by the calls before it, each with the value it has
\* after the merge of the call just before (the value of the last earlier
\* call that returned it).
C1_AgentSeesEarlierKeys ==
    \A r \in Runs : \A i \in 1..Len(seen[r]) :
        /\ "prompt" \in DOMAIN seen[r][i]
        /\ i - 1 <= Len(results[r])
        /\ \A k \in KeysOf(SubSeq(results[r], 1, i - 1)) :
            /\ k \in DOMAIN seen[r][i]
            /\ seen[r][i][k] = results[r][SetMax(Writers(results[r], i - 1, k))][k]

C1_Witness ==
    \E r \in Runs :
        /\ Len(seen[r]) = 2
        /\ "disaster_type" \in DOMAIN results[r][1]
        /\ seen[r][2]["disaster_type"] = results[r][1]["disaster_type"]

\* C2: in a run whose agents all succeeded, the returned context gives every
\* key returned by some agent the value returned by the last agent of the
\* list that returned it.
C2_LastWriteWins ==
    \A r \in Runs : \A c \in returned[r] :
        \A k \in KeysOf(results[r]) :
            /\ k \in DOMAIN c
            /\ c[k] = results[r][SetMax(Writers(results[r], Len(results[r]), k))][k]

C2_Witness ==
    \E r \in Runs : \E c \in returned[r] :
        /\ Len(results[r]) = 2
        /\ "disaster_type" \in DOMAIN results[r][1] \cap DOMAIN results[r][2]
        /\ results[r][1]["disaster_type"] = <<"x">>
        /\ results[r][2]["disaster_type"] = <<"y">>
        /\ c["disaster_type"] = <<"y">>

\* C3: when an agent.run raises, Orchestrator.run raises that error to its
\* caller, and the call that raised stays the last call of the run: no agent
\* after it is invoked.
C3_FailurePropagates ==
    /\ [](\A r \in Runs :
            raised[r] # "none" =>
                /\ pc[r] = "aborted"
                /\ error[r] = raised[r]
                /\ Len(calls[r]) = Len(results[r]) + 1)
    /\ [][\A r \in Runs : raised[r] # "none" => calls'[r] = calls[r]]_vars

C3_Witness ==
    \E r \in Runs :
        /\ raised[r] = "ExternalDependencyError"
        /\ error[r] = "ExternalDependencyError"
        /\ Len(calls[r]) < Len(agents)

\* C4: Orchestrator.run returns a context only when every agent of the list
\* has completed and been merged; an aborted run returns no context; a run
\* that is done or aborted stays so with the same outcome.
C4_NoPartialSuccess ==
    /\ [](\A r \in Runs :
            /\ pc[r] = "done" <=> returned[r] # {}
            /\ returned[r] # {} =>
                /\ Len(results[r]) = Len(agents)
                /\ returned[r] = {context[r]}
                /\ error[r] = "none"
            /\ pc[r] = "aborted" =>
                /\ returned[r] = {}
                /\ response[r] = {}
                /\ error[r] # "none")
    /\ [][\A r \in Runs :
            pc[r] \in {"done", "aborted"} =>
                /\ pc'[r] = pc[r]
                /\ returned'[r] = returned[r]
                /\ error'[r] = error[r]]_vars

C4_Witness ==
    \E r, q \in Runs :
        /\ pc[r] = "done"
        /\ pc[q] = "aborted"
        /\ Len(results[q]) >= 1

\* C5: with an empty agent list a run calls no agent and returns exactly
\* {"prompt": p}, also for the empty prompt.
C5_EmptyAgentList ==
    \A r \in Runs :
        (agents = <<>> /\ pc[r] # "idle") =>
            /\ calls[r] = <<>>
            /\ pc[r] = "done"
            /\ context[r] = ("prompt" :> prompt[r])
            /\ pc[r] = "done" => returned[r] = {"prompt" :> prompt[r]}

C5_Witness ==
    /\ agents = <<>>
    /\ \E r, q \in Runs :
        /\ pc[r] = "done" /\ prompt[r] = <<>>
        /\ pc[q] = "done" /\ prompt[q] = FloodPrompt

\* C6: a call of DisasterTypeAgent or GeocodingAgent never returns the key
\* "prompt"; in a run none of whose calls returned "prompt", the context
\* holds "prompt" with the prompt of the run in every state, and so does the
\* returned context.
C6_PromptPreserved ==
    /\ \A r \in Runs : \A j \in 1..Len(results[r]) :
            calls[r][j].agent \in {"disaster_type", "geocoding"} =>
                "prompt" \notin DOMAIN results[r][j]
    /\ \A r \in Runs :
            (pc[r] # "idle" /\ "prompt" \notin KeysOf(results[r])) =>
                /\ "prompt" \in DOMAIN context[r]
                /\ context[r]["prompt"] = prompt[r]
                /\ \A c \in returned[r] :
                    "prompt" \in DOMAIN c /\ c["prompt"] = prompt[r]

C6_Witness ==
    /\ agents = DefaultAgents
    /\ \E r \in Runs : \E c \in returned[r] :
        /\ prompt[r] = FloodPrompt
        /\ c["prompt"] = FloodPrompt
        /\ c["location"] # Null

\* C7: the calls of a run are the agents of the list in list order, each
\* position called at most once and none left out before a later one; a run
\* that succeeds has called every agent once.
C7_NoSkipRetryReorder ==
    \A r \in Runs :
        /\ Len(calls[r]) <= Len(agents)
        /\ \A i \in 1..Len(calls[r]) :
            calls[r][i] = [index |-> i, agent |-> agents[i]]
        /\ pc[r] = "done" => Len(calls[r]) = Len(agents)

C7_Witness ==
    \E r \in Runs :
        /\ pc[r] = "done"
        /\ Len(calls[r]) = 2
        /\ agents[1] # agents[2]

\* C8: at most one agent.run call of a run is in progress; while a call is
\* in progress, also while it waits for the geocoder, it is the last call
\* made and every call before it has returned and been merged.
C8_OneAgentAtATime ==
    \A r \in Runs :
        /\ Cardinality(inflight[r]) <= 1
        /\ pc[r] = "running" <=> inflight[r] # {}
        /\ pc[r] = "running" =>
            /\ inflight[r] = {Len(calls[r])}
            /\ Len(results[r]) = Len(calls[r]) - 1
            /\ seen[r][Len(seen[r])] = context[r]
        /\ pc[r] = "done" => Len(results[r]) = Len(calls[r])

C8_Witness ==
    \E r \in Runs :
        /\ pc[r] = "running"
        /\ query[r] # {}
        /\ Len(calls[r]) < Len(agents)

\* C9: the context of a run is made of the prompt of that run and of the
\* mappings returned by the calls of that run alone, each of them a mapping
\* the agent can return from the context made of the run's prompt and its
\* earlier results; nothing of another run on the same orchestrator enters
\* it, and the returned context is that context.
C9_RunIsolation ==
    \A r \in Runs :
        pc[r] # "idle" =>
            /\ context[r] = Expected(prompt[r], results[r])
            /\ \A c \in returned[r] : c = Expected(prompt[r], results[r])
            /\ \A i \in 1..Len(seen[r]) :
                /\ i - 1 <= Len(results[r])
                /\ seen[r][i] = Expected(prompt[r], SubSeq(results[r], 1, i - 1))
            /\ \A n \in 1..Len(results[r]) :
                LET alone == Expected(prompt[r], SubSeq(results[r], 1, n - 1))
                IN  results[r][n] \in
                        AgentResults(agents[n], alone,
                            IF agents[n] = "geocoding"
                            THEN GeocodingQuery(alone) ELSE {})

C9_Witness ==
    \E r, q \in Runs :
        /\ r # q
        /\ prompt[r] # prompt[q]
        /\ pc[r] = "running" /\ Len(results[r]) >= 1
        /\ pc[q] = "running" /\ Len(results[q]) >= 1
        /\ context[r] # context[q]

\* C10: in no step of a run does the context lose a key, the returned
\* context has every key of the context, and every key an agent returned is
\* in the context from then on.
C10_KeysNeverShrink ==
    /\ [](\A r \in Runs :
            pc[r] # "idle" =>
                /\ {"prompt"} \cup KeysOf(results[r]) \subseteq DOMAIN context[r]
                /\ \A c \in returned[r] : DOMAIN context[r] \subseteq DOMAIN c)
    /\ [][\A r \in Runs :
            pc[r] # "idle" => DOMAIN context[r] \subseteq DOMAIN context'[r]]_vars

C10_Witness ==
    \E r \in Runs : \E c \in returned[r] :
        /\ Len(results[r]) = 2
        /\ DOMAIN results[r][1] = {"disaster_type"}
        /\ DOMAIN results[r][2] = {"location"}
        /\ DOMAIN c = {"prompt", "disaster_type", "location"}


\* C11: the keys of the context a run returns are exactly "prompt" and the
\* keys of the mappings its agent.run calls returned; a key none of them
\* returned ("disaster_type", "location") is absent, not there with a default.
C11_NoInventedKeys ==
    \A r \in Runs : \A c \in returned[r] :
        /\ DOMAIN c = {"prompt"} \cup KeysOf(results[r])
        /\ \A k \in {"disaster_type", "location"} :
            Writers(results[r], Len(results[r]), k) = {} => k \notin DOMAIN c

C11_Witness ==
    \E r \in Runs : \E c \in returned[r] :
        /\ Len(results[r]) = 2
        /\ KeysOf(results[r]) = {"disaster_type"}
        /\ DOMAIN c = {"prompt", "disaster_type"}

\* C12: the agent list is fixed for a run: the agents a run calls are, in
\* order, the elements the list held when the run started, all of them once
\* the run has returned, also when the caller changes the list it passed to
\* the constructor while the run is suspended.
C12_ListFixedForRun ==
    \A r \in Runs :
        /\ Len(calls[r]) <= Len(started[r])
        /\ \A j \in 1..Len(calls[r]) :
            j <= Len(started[r]) => calls[r][j].agent = started[r][j]
        /\ pc[r] = "done" => Len(calls[r]) = Len(started[r])

\* C13: a DisasterTypeAgent.run call whose prompt holds no disaster keyword
\* does not raise and returns "disaster_type" absent or null, and the context
\* the default pipeline returns for such a prompt has "disaster_type" absent
\* or null: "unknown" appears in the response of simulate only.
C13_NoMatchAbsentOrNull ==
    \A r \in Runs :
        /\ \A j \in 1..Len(calls[r]) :
            (/\ calls[r][j].agent = "disaster_type"
             /\ PatternSearchOf(seen[r][j]["prompt"]) = {})
            => /\ ~(pc[r] = "aborted" /\ j = Len(calls[r]))
               /\ j <= Len(results[r]) =>
                    \/ "disaster_type" \notin DOMAIN results[r][j]
                    \/ results[r][j]["disaster_type"] = Null
        /\ (agents = DefaultAgents /\ PatternSearchOf(prompt[r]) = {}) =>
            \A c \in returned[r] :
                \/ "disaster_type" \notin DOMAIN c
                \/ c["disaster_type"] = Null

\* the GeocodingAgent.run calls of run r whose prompt gives a location query
GeocodingLookupCalls(r) ==
    {j \in 1..Len(calls[r]) :
        /\ calls[r][j].agent = "geocoding"
        /\ ExtractLocationQuery(seen[r][j]["prompt"]) \notin {{}, {<<>>}}}

\* C14: a GeocodingAgent.run call whose prompt gives no location query sends
\* nothing to the geocoder, does not raise and returns {"location": null}; a
\* call that did send its query returns "location" alone, null when the
\* geocoder answered without features; a run aborted in GeocodingAgent.run
\* was aborted in a call that had sent its query.
C14_NoLocationIsNotFailure ==
    \A r \in Runs :
        /\ Len(lookups[r]) = Cardinality(GeocodingLookupCalls(r))
        /\ \A j \in 1..Len(calls[r]) :
            calls[r][j].agent = "geocoding" =>
                /\ j \notin GeocodingLookupCalls(r) =>
                    /\ ~(pc[r] = "aborted" /\ j = Len(calls[r]))
                    /\ j <= Len(results[r]) => results[r][j] = "location" :> Null
                /\ j <= Len(results[r]) => DOMAIN results[r][j] = {"location"}
                /\ (pc[r] = "aborted" /\ j = Len(calls[r])) =>
                    /\ j \in GeocodingLookupCalls(r)
                    /\ lookups[r] # <<>>
                    /\ {lookups[r][Len(lookups[r])]} =
                          ExtractLocationQuery(seen[r][j]["prompt"])

C14_Witness ==
    \E r, q \in Runs :
        /\ \E j \in 1..Len(results[r]) :
            /\ calls[r][j].agent = "geocoding"
            /\ j \in GeocodingLookupCalls(r)
            /\ lookups[r] # <<>>
            /\ results[r][j] = "location" :> Null
        /\ \E i \in 1..Len(results[q]) :
            /\ calls[q][i].agent = "geocoding"
            /\ lookups[q] = <<>>
            /\ results[q][i] = "location" :> Null

\* C15: the default pipeline, run on a prompt with a disaster keyword and a
\* location phrase, with the geocoder answering with a best match, returns
\* exactly the keys "prompt" (the input), "disaster_type" (the keyword in
\* lower case) and "location" (the name of the match, lat its second
\* coordinate, lng its first).
C15_EndToEndSuccess ==
    \A r \in Runs :
        (/\ agents = DefaultAgents
         /\ prompt[r] = FloodPrompt
         /\ pc[r] = "done"
         /\ results[r][2]["location"] # Null)
        => returned[r] =
            {[k \in {"prompt", "disaster_type", "location"} |->
                CASE k = "prompt" -> FloodPrompt
                  [] k = "disaster_type" -> <<"f", "l", "o", "o", "d">>
                  [] k = "location" -> [name |-> RomeIT, lat |-> 41, lng |-> 12]]}

C15_Witness ==
    \E r \in Runs :
        /\ agents = DefaultAgents
        /\ prompt[r] = FloodPrompt
        /\ pc[r] = "done"
        /\ lookups[r] = <<<<"R", "o", "m", "e">>>>
        /\ \E c \in returned[r] : c["location"] # Null

\* C16: for the context a run returns, simulate responds with the context's
\* "disaster_type" when the key is there and with "unknown" when it is not,
\* and with no location exactly when the context's "location" is absent or
\* null, otherwise with the Location of its name, lat and lng; for a run that
\* raised there is no response and the error has left simulate; there is no
\* response before the run returns.
C16_ApiDefaulting ==
    \A r \in Runs :
        /\ pc[r] = "done" =>
            \E c \in returned[r] : \E resp \in response[r] :
                /\ response[r] = {resp}
                /\ resp.disaster_type =
                      IF "disaster_type" \in DOMAIN c THEN c["disaster_type"]
                      ELSE <<"u", "n", "k", "n", "o", "w", "n">>
                /\ resp.location = {} <=>
                      ("location" \notin DOMAIN c \/ c["location"] = Null)
                /\ \A l \in resp.location :
                      /\ resp.location = {l}
                      /\ l.name = c["location"].name
                      /\ l.lat = c["location"].lat
                      /\ l.lng = c["location"].lng
        /\ pc[r] = "aborted" => (response[r] = {} /\ error[r] # "none")
        /\ pc[r] \in {"idle", "running"} => response[r] = {}

C16_Witness ==
    \E r, q \in Runs :
        /\ pc[r] = "done"
        /\ \E c \in returned[r] : \E resp \in response[r] :
            /\ "disaster_type" \notin DOMAIN c
            /\ resp.disaster_type = Unknown
            /\ resp.location = {[name |-> RomeIT, lat |-> 41, lng |-> 12]}
        /\ pc[q] = "aborted"
        /\ response[q] = {}

\* C17: when every agent.run call eventually returns or raises, a run that
\* has started eventually ends: it has returned after as many completed
\* calls as the list has agents, or it was aborted by the first call that
\* raised.  The completed calls never outnumber the agents, the iterator
\* never goes back, and a run that has ended stays as it ended.
C17_RunTerminates ==
    /\ \A r \in Runs : (pc[r] = "running") ~> (pc[r] \in {"done", "aborted"})
    /\ [](\A r \in Runs :
            /\ Len(results[r]) <= Len(agents)
            /\ pc[r] = "done" =>
                (Len(results[r]) = Len(agents) /\ raised[r] = "none")
            /\ pc[r] = "aborted" =>
                (raised[r] # "none" /\ Len(results[r]) = Len(calls[r]) - 1))
    /\ [][\A r \in Runs :
            /\ it'[r] >= it[r]
            /\ pc[r] \in {"done", "aborted"} => pc'[r] = pc[r]]_vars

C17_Witness ==
    \E r, q \in Runs :
        /\ pc[r] = "done"
        /\ Len(results[r]) = MaxAgents
        /\ pc[q] = "aborted"
        /\ Len(calls[q]) = MaxAgents

\* the list reversed
Reverse(list) == [i \in 1..Len(list) |-> list[Len(list) + 1 - i]]

\* C18: the two default agents commute: a run of the list
\* [DisasterTypeAgent, GeocodingAgent] or of [GeocodingAgent,
\* DisasterTypeAgent] returns the context that the list in the other order
\* gives for the same prompt and the same answer of the geocoder.
C18_DefaultAgentsCommute ==
    \A r \in Runs :
        (pc[r] = "done" /\ agents \in {DefaultAgents, Reverse(DefaultAgents)}) =>
            \A resp \in {x \in GeoResponses : x.status = "ok"} :
                (\E j \in 1..Len(calls[r]) :
                    /\ calls[r][j].agent = "geocoding"
                    /\ results[r][j] =
                          AgentResultWith("geocoding", NewContext(prompt[r]), resp))
                => returned[r] = {OrchestratorRun(Reverse(agents), prompt[r], resp)}

C18_Witness ==
    \E r, q \in Runs :
        /\ agents = Reverse(DefaultAgents)
        /\ pc[r] = "done"
        /\ pc[q] = "done"
        /\ \E c \in returned[r] :
            /\ c["disaster_type"] = <<"f", "l", "o", "o", "d">>
            /\ c["location"] # Null
        /\ \E c \in returned[q] :
            /\ c["disaster_type"] = <<"f", "l", "o", "o", "d">>
            /\ c["location"] = Null

\* C19: while an agent.run call of DisasterTypeAgent or GeocodingAgent is in
\* flight, the context of its run is the context the call was given; the
\* context of a run changes only when the run starts and when one of its
\* calls has returned, and then by the merge of the returned mapping alone.
C19_AgentCallFrame ==
    /\ [](\A r \in Runs :
            (pc[r] = "running" /\ Current(r).agent \in {"disaster_type", "geocoding"})
            => context[r] = seen[r][Len(seen[r])])
    /\ [][\A r \in Runs :
            context'[r] # context[r] =>
                \/ /\ pc[r] = "idle"
                   /\ context'[r] = "prompt" :> prompt'[r]
                \/ /\ pc[r] = "running"
                   /\ Len(results'[r]) = Len(results[r]) + 1
                   /\ context'[r] =
                        Update(context[r], results'[r][Len(results'[r])])]_vars

C19_Witness ==
    \E r \in Runs :
        /\ pc[r] = "running"
        /\ Current(r).agent = "geocoding"
        /\ query[r] # {}
        /\ Len(results[r]) = 1
        /\ "disaster_type" \in DOMAIN context[r]
        /\ context[r] = seen[r][2]
=============================================================================
